---- MODULE Spec2Model ----
(***************************************************************************)
(* State-machine model of GracefulControllerROS                            *)
(* (graceful_controller_ros/src/graceful_controller_ros.cpp).              *)
(*                                                                         *)
(* Units.  Lengths are integers, one unit = 0.25 m; the costmap has one    *)
(* cell per unit of length.  Angles are integer codes, one code = 22.5     *)
(* degrees: an even code 2k is exactly k*45 degrees, an odd code 2k+1      *)
(* stands for any angle strictly between k*45 and (k+1)*45 degrees.  Every *)
(* comparison the program makes on an angle is against a multiple of 45    *)
(* degrees, so the code decides it exactly.  Orientations are planar       *)
(* (Pose2D): a quaternion is represented by the yaw tf2::getYaw reads from *)
(* it, and writing (z, w) = (sin(yaw/2), cos(yaw/2)) followed by getYaw is *)
(* NormalizeAngle.  The robot's yaw and the simulated yaw are multiples of *)
(* 90 degrees, so that rotations map the integer lattice onto itself.      *)
(***************************************************************************)
EXTENDS Integers, Sequences, FiniteSets, TLC

\* ---------------------------------------------------------------- bounds
\* Number of costmap cells along x and along y.
SizeX == 5
SizeY == 3
\* Longest path handed to setPlan.
MaxPlanLen == 3

\* ------------------------------------------------------------- constants
\* costmap_2d::INSCRIBED_INFLATED_OBSTACLE
INSCRIBED_INFLATED_OBSTACLE == 253
\* The 0.5 of rotateTowards, in units of 0.25 m.
NearDistance == 2
\* Resolution of the costmap (Costmap2D::getResolution), in units of length.
CostmapResolution == 1
\* Half a turn (pi) in angle codes.
Pi == 8

\* -------------------------------------------------------------- geometry
Abs(n) == IF n < 0 THEN -n ELSE n

Min(a, b) == IF a < b THEN a ELSE b

Max(a, b) == IF a < b THEN b ELSE a

\* double sign(double x)
sign(x) == IF x < 0 THEN -1 ELSE 1

\* std::hypot(dx, dy) < t
HypotLess(dx, dy, t) == t > 0 /\ dx * dx + dy * dy < t * t

\* std::hypot(dx, dy) > t
HypotGreater(dx, dy, t) == t < 0 \/ dx * dx + dy * dy > t * t

\* Largest r with r * r <= n: the integer part of sqrt(n).
RECURSIVE SqrtFrom(_, _)
SqrtFrom(n, r) == IF (r + 1) * (r + 1) > n THEN r ELSE SqrtFrom(n, r + 1)

Sqrt(n) == SqrtFrom(n, 0)

\* The angle code in (-Pi, Pi] that denotes the same direction as a:
\* what tf2::getYaw returns for the quaternion built from yaw a.
NormalizeAngle(a) ==
    LET m == a % (2 * Pi)
    IN  IF m > Pi THEN m - 2 * Pi ELSE m

\* std::atan2(y, x) for y >= 0, as an angle code.
Atan2Upper(y, x) ==
    IF y = 0 THEN (IF x >= 0 THEN 0 ELSE Pi)
    ELSE IF x = 0 THEN 4
    ELSE IF x > 0 THEN (IF y < x THEN 1 ELSE IF y = x THEN 2 ELSE 3)
    ELSE (IF y > -x THEN 5 ELSE IF y = -x THEN 6 ELSE 7)

\* std::atan2(y, x)
Atan2(y, x) == IF y < 0 THEN -Atan2Upper(-y, x) ELSE Atan2Upper(y, x)

\* The difference of the angles, not brought back into (-Pi, Pi].
RawAngularDistance(from, to) == to - from

\* angles::shortest_angular_distance(from, to)
shortest_angular_distance(from, to) == NormalizeAngle(to - from)

\* cos and sin of a multiple of 90 degrees.
Cos(a) ==
    LET n == NormalizeAngle(a)
    IN  IF n = 0 THEN 1 ELSE IF n = Pi THEN -1 ELSE 0

Sin(a) ==
    LET n == NormalizeAngle(a)
    IN  IF n = 4 THEN 1 ELSE IF n = -4 THEN -1 ELSE 0

Pose(px, py, pyaw) == [x |-> px, y |-> py, yaw |-> pyaw]

\* tf2::doTransform(pose, pose, odom_to_base) where odom_to_base is the
\* inverse of the robot pose in the costmap's global frame.
ToBase(p, robot) ==
    LET ddx == p.x - robot.x
        ddy == p.y - robot.y
        th == -robot.yaw
    IN  Pose(ddx * Cos(th) - ddy * Sin(th),
             ddy * Cos(th) + ddx * Sin(th),
             NormalizeAngle(p.yaw + th))

\* tf2::doTransform(next_pose, next_pose, base_to_odom)
ToOdom(p, robot) ==
    Pose(robot.x + p.x * Cos(robot.yaw) - p.y * Sin(robot.yaw),
         robot.y + p.y * Cos(robot.yaw) + p.x * Sin(robot.yaw),
         NormalizeAngle(p.yaw + robot.yaw))

\* ------------------------------------------------------- rotateTowards
Twist(lin, ang) == [linear_x |-> lin, angular_z |-> ang]

\* The yaw error rotateTowards determines for a pose given in base frame.
RotateYaw(pose) ==
    IF HypotGreater(pose.x, pose.y, NearDistance)
    THEN Atan2(pose.y, pose.x)
    ELSE pose.yaw

\* The max_vel_th without the floor of min_in_place_vel_theta_.
RotateMaxVelThUnfloored(lim, min_in_place, odom, vel, acc_dt) ==
    IF odom
    THEN Min(lim.max_vel_theta, Abs(vel.th) + lim.acc_lim_theta * acc_dt)
    ELSE lim.max_vel_theta

\* The max_vel_th of rotateTowards (lines 482-491).
RotateMaxVelTh(lim, min_in_place, odom, vel, acc_dt) ==
    IF odom
    THEN Max(Min(lim.max_vel_theta, Abs(vel.th) + lim.acc_lim_theta * acc_dt),
             min_in_place)
    ELSE lim.max_vel_theta

\* double rotateTowards(pose, cmd_vel): the returned yaw error and the command
\* written to cmd_vel.
rotateTowards(pose, lim, min_in_place, odom, vel, acc_dt) ==
    LET yaw == RotateYaw(pose)
        max_vel_th == RotateMaxVelTh(lim, min_in_place, odom, vel, acc_dt)
        mag == Sqrt(2 * lim.acc_lim_theta * Abs(yaw))
    IN  [yaw |-> yaw,
         cmd |-> Twist(0, sign(yaw) * Min(max_vel_th, Max(min_in_place, mag)))]

\* ------------------------------------------------------- steering law
\* GracefulController::approach is opaque to the controller: a cycle runs
\* against one of these laws.  Each is a function of the pose error and of
\* the velocity bounds the law holds.  "seek" drives to the target, "spin"
\* turns left for ever, "fail_near" is "seek" that cannot compute a command
\* when the target is one unit ahead.
Laws == {"seek", "spin", "fail_near"}

\* The speed the law commands under its velocity bounds.
LawSpeed(ctl) == Max(ctl.max_vel_x, 1)

\* Quarter turns per unit of length the law asks for.
LawTurn(law, ex, ey) ==
    IF law = "spin" THEN 1
    ELSE IF ex >= 2 \/ (ex = 1 /\ ey = 0) THEN 0
    ELSE sign(ey)

\* bool GracefulController::approach(x, y, theta, vel_x, vel_th)
approach(law, ctl, ex, ey, etheta) ==
    [ok |-> ~(law = "fail_near" /\ ex = 1),
     vel_x |-> LawSpeed(ctl),
     vel_th |-> LawTurn(law, ex, ey) * LawSpeed(ctl)]

\* ------------------------------------------------------------ costmap
\* Costmap2D::worldToMap: the cell of a world point, or "off the map".
worldToMap(wx, wy) ==
    IF wx < 0 \/ wy < 0
    THEN [inside |-> FALSE, mx |-> 0, my |-> 0]
    ELSE LET cx == wx \div CostmapResolution
             cy == wy \div CostmapResolution
         IN  [inside |-> cx < SizeX /\ cy < SizeY, mx |-> cx, my |-> cy]

Cells == (0 .. SizeX - 1) \X (0 .. SizeY - 1)

\* Costmap2D::getCost
getCost(costmap, mx, my) == costmap[<<mx, my>>]

\* The comparison with > for >=: an inscribed cell passes.
InCollisionAbove(cost) == cost > INSCRIBED_INFLATED_OBSTACLE

\* getCost(mx, my) >= costmap_2d::INSCRIBED_INFLATED_OBSTACLE (line 362)
InCollision(cost) == cost >= INSCRIBED_INFLATED_OBSTACLE

\* ------------------------------------------------- forward simulation
\* The target expressed relative to the last simulated pose (lines 289-307).
ErrorOf(target, path) ==
    IF path = <<>>
    THEN [x |-> target.x, y |-> target.y, angle |-> target.yaw]
    ELSE LET last == path[Len(path)]
             ddx == target.x - last.x
             ddy == target.y - last.y
             theta == -last.yaw
         IN  [x |-> ddx * Cos(theta) - ddy * Sin(theta),
              y |-> ddy * Cos(theta) + ddx * Sin(theta),
              angle |-> target.yaw + theta]

\* The step that turns first and advances along the new heading.
NextPoseYawFirst(start, vel_x, vel_th, res) ==
    LET yaw == NormalizeAngle(start.yaw + 4 * ((res * vel_th) \div vel_x))
    IN  Pose(start.x + res * Cos(yaw), start.y + res * Sin(yaw), yaw)

\* The pose generated from start by one step of the command (lines 344-351).
NextPose(start, vel_x, vel_th, res) ==
    Pose(start.x + res * Cos(start.yaw),
         start.y + res * Sin(start.yaw),
         NormalizeAngle(start.yaw + 4 * ((res * vel_th) \div vel_x)))

\* The command taken from every iteration of the loop.
EveryIteration(path) == TRUE

\* if (path.empty()): the iteration that writes cmd_vel (lines 318-322).
FirstIteration(path) == path = <<>>

\* The while (true) loop of computeVelocityCommands for one candidate:
\* target in base frame, path the simulated trajectory so far, cmd the
\* caller's command as written so far.  The loop ends by convergence, by a
\* failure of approach, or by a simulated pose off the costmap or in
\* collision; "never_ends" is the loop that runs for ever (the simulated pose
\* repeats, and with it every later iteration).
RECURSIVE Simulate(_, _, _, _, _, _, _, _)
Simulate(target, law, ctl, robot, costmap, res, path, cmd) ==
    LET error == ErrorOf(target, path)
        a == approach(law, ctl, error.x, error.y, error.angle)
        done(outcome, p, v) == [outcome |-> outcome, path |-> p, cmd |-> v]
    IN  IF ~a.ok THEN done("approach_failed", path, cmd)
        ELSE
        LET cmd1 == IF FirstIteration(path) THEN Twist(a.vel_x, a.vel_th)
                                            ELSE cmd
        IN  IF path # <<>> /\ HypotLess(error.x, error.y, res)
            THEN done("converged", path, cmd1)
            ELSE
            LET start == IF path = <<>> THEN Pose(0, 0, 0) ELSE path[Len(path)]
                next_pose == NextPose(start, a.vel_x, a.vel_th, res)
                path1 == Append(path, next_pose)
                world == ToOdom(next_pose, robot)
                cell == worldToMap(world.x, world.y)
            IN  IF ~cell.inside
                THEN done("off_costmap", path1, cmd1)
                ELSE IF InCollision(getCost(costmap, cell.mx, cell.my))
                THEN done("collision", path1, cmd1)
                ELSE IF \E k \in 1 .. Len(path) : path[k] = next_pose
                THEN done("never_ends", path1, cmd1)
                ELSE Simulate(target, law, ctl, robot, costmap, res, path1, cmd1)

\* The bounds with the measured velocity and the acceleration limit left out.
VelocityLimitsUncapped(ctl, odom, lim, vel, acc_dt, max_vel_x) ==
    IF odom
    THEN [min_vel_x |-> lim.min_vel_x,
          max_vel_x |-> Max(max_vel_x, lim.min_vel_x),
          max_vel_theta |-> lim.max_vel_theta]
    ELSE ctl

\* The velocity bounds pushed into the steering law (lines 272-281).
VelocityLimits(ctl, odom, lim, vel, acc_dt, max_vel_x) ==
    IF odom
    THEN [min_vel_x |-> lim.min_vel_x,
          max_vel_x |-> Max(Min(vel.x + lim.acc_lim_x * acc_dt, max_vel_x),
                            lim.min_vel_x),
          max_vel_theta |-> lim.max_vel_theta]
    ELSE ctl

\* The distance taken along x alone.
TooFarAlongX(pose, robot, max_lookahead) ==
    HypotGreater(pose.x - robot.x, 0, max_lookahead)

\* Whether the pose is too far away to be a candidate (line 249).
TooFar(pose, robot, max_lookahead) ==
    HypotGreater(pose.x - robot.x, pose.y - robot.y, max_lookahead)

\* transformed_plan[i], with the index of the source (from 0).
At(plan, i) == plan[i + 1]

\* The scan started one pose short of the end of the plan.
LastIndexShort(plan) == Len(plan) - 2

\* The index the scan starts at: transformed_plan.size() - 1 (line 242).
LastIndex(plan) == Len(plan) - 1

\* The comparison without fabs.
DoneRotatingSigned(yaw, tolerance) == yaw < tolerance

\* fabs(rotateTowards(pose, cmd_vel)) < initial_rotate_tolerance_ (line 260)
DoneRotating(yaw, tolerance) == Abs(yaw) < tolerance

\* A failure of approach treated as a rejected candidate.
ApproachFailureIgnored(outcome) == FALSE

\* Whether the outcome of a candidate's simulation ends the cycle in failure
\* (lines 311-316).
UnableToApproach(outcome) == outcome = "approach_failed"

\* The end of the scan returning true.
EndOfScanSucceeds(s) == [s EXCEPT !.ret = TRUE, !.exit = "no_reachable"]

\* The end of the scan: no pose in path was reachable (lines 371-372).
NoPoseReachable(s) == [s EXCEPT !.ret = FALSE, !.exit = "no_reachable"]

\* The gate applied whatever the new-path flag.
GateAppliesWhateverFlag(has_new_path, tolerance) == tolerance > 0

\* if (has_new_path_ && initial_rotate_tolerance_ > 0.0) (line 257)
GateApplies(has_new_path, tolerance) == has_new_path /\ tolerance > 0

\* The for loop of computeVelocityCommands from index i down (lines 242-372).
\* c holds what the cycle reads: the transformed plan, the robot pose, the
\* costmap, the steering law, the measured velocity and the parameters.
\* s holds what the cycle has written so far: cmd_vel, has_new_path,
\* controller (the law's velocity bounds), and the record of the gate calls
\* and of the simulated candidates.
RECURSIVE Scan(_, _, _)
Scan(i, c, s) ==
    IF ~(i > 0)
    THEN NoPoseReachable(s)
    ELSE
    IF TooFar(At(c.plan, i), c.robot, c.max_lookahead)
    THEN Scan(i - 1, c, s)
    ELSE
    LET pose == ToBase(At(c.plan, i), c.robot)
        gated == GateApplies(s.has_new_path, c.initial_rotate_tolerance)
        r == rotateTowards(pose, c.limits, c.min_in_place, c.odom, c.vel, c.acc_dt)
        s1 == IF gated
              THEN [s EXCEPT !.cmd_vel = r.cmd,
                             !.gates = Append(@, [index |-> i, yaw |-> r.yaw]),
                             !.has_new_path =
                                 ~DoneRotating(r.yaw, c.initial_rotate_tolerance)]
              ELSE s
    IN  IF gated /\ s1.has_new_path
        THEN [s1 EXCEPT !.ret = TRUE, !.exit = "rotate"]
        ELSE
        LET ctl == VelocityLimits(s1.controller, c.odom, c.limits, c.vel,
                                  c.acc_dt, c.max_vel_x)
            sim == Simulate(pose, c.law, ctl, c.robot, c.costmap, c.resolution,
                            <<>>, s1.cmd_vel)
            s2 == [s1 EXCEPT !.controller = ctl,
                             !.cmd_vel = sim.cmd,
                             !.attempts = Append(@, [index |-> i,
                                                     outcome |-> sim.outcome,
                                                     path |-> sim.path,
                                                     cmd |-> sim.cmd,
                                                     bounds |-> ctl])]
        IN  IF UnableToApproach(sim.outcome)
            THEN [s2 EXCEPT !.ret = FALSE, !.exit = "approach_failed"]
            ELSE IF sim.outcome = "converged"
            THEN [s2 EXCEPT !.ret = TRUE, !.exit = "tracking",
                            !.local_plan = <<sim.path>>]
            ELSE IF sim.outcome = "never_ends"
            THEN [s2 EXCEPT !.returned = FALSE, !.exit = "never_ends"]
            ELSE Scan(i - 1, c, s2)

\* -------------------------------------------------------------- state
VARIABLES
    initialized_,               \* bool initialized_
    has_new_path_,              \* bool has_new_path_
    odom_topic,                 \* whether odom_helper_ has an odometry topic
    acc_dt_,                    \* double acc_dt_
    limits,                     \* planner_util_'s current LocalPlannerLimits
    xy_goal_tolerance_,
    yaw_goal_tolerance_,
    min_in_place_vel_theta_,
    max_lookahead_,
    initial_rotate_tolerance_,
    resolution_,
    max_vel_x_,
    controller_,                \* the velocity bounds held by *controller_
    global_plan,                \* the plan held by planner_util_
    call,                       \* the last call of the host: its inputs,
                                \* what it returned and what it did
    config_mutex_,              \* std::mutex config_mutex_: the context
                                \* holding it, or "free"
    running                     \* the operation each context is in the
                                \* middle of

vars == <<initialized_, has_new_path_, odom_topic, acc_dt_, limits,
          xy_goal_tolerance_, yaw_goal_tolerance_, min_in_place_vel_theta_,
          max_lookahead_, initial_rotate_tolerance_, resolution_, max_vel_x_,
          controller_, global_plan, call, config_mutex_, running>>

config_vars == <<limits, xy_goal_tolerance_, yaw_goal_tolerance_,
                 min_in_place_vel_theta_, max_lookahead_,
                 initial_rotate_tolerance_, resolution_, max_vel_x_>>

setup_vars == <<initialized_, odom_topic, acc_dt_>>

lock_vars == <<config_mutex_, running>>

\* ------------------------------------------------------------- inputs
\* GracefulControllerConfig values the reconfigure server delivers.
BaseConfig ==
    [max_vel_x |-> 2, min_vel_x |-> 0, max_vel_theta |-> 3,
     acc_lim_x |-> 1, acc_lim_theta |-> 2,
     xy_goal_tolerance |-> 1, yaw_goal_tolerance |-> 2,
     min_in_place_vel_theta |-> 1, max_lookahead |-> 3,
     initial_rotate_tolerance |-> 0]

Configs ==
    {BaseConfig,
     [BaseConfig EXCEPT !.initial_rotate_tolerance = 2],
     [BaseConfig EXCEPT !.xy_goal_tolerance = 4, !.yaw_goal_tolerance = 4],
     [BaseConfig EXCEPT !.max_lookahead = 2, !.max_vel_x = 1]}

\* Paths a global planner hands to setPlan: the first poses of a road that
\* starts at cell (1, 1), either straight east or north-east and then east;
\* every pose of a path carries the same input heading.
Roads == {"east", "bent"}

RoadPose(road, k, h) ==
    Pose(k, IF road = "bent" /\ k > 1 THEN 2 ELSE 1, h)

PlanHeadings == {-6}

InputPaths ==
    {[k \in 1 .. n |-> RoadPose(road, k, h)] :
        road \in Roads, n \in 1 .. MaxPlanLen, h \in PlanHeadings}

\* Poses getRobotPose reports.
RobotPoses == {Pose(1, 1, 0), Pose(1, 1, 4), Pose(2, 1, 8), Pose(0, 1, 0)}

\* Velocities the odometry helper reports.
RobotVels == {[x |-> 1, th |-> 1]}

\* The velocity of a cycle that reads none.
NoVel == [x |-> 0, th |-> 0]

\* Costmaps: free but for one marked cell.
CostmapWith(cell, cost) == [k \in Cells |-> IF k = cell THEN cost ELSE 0]

Costmaps ==
    {CostmapWith(<<2, 1>>, 252), CostmapWith(<<3, 1>>, 253),
     CostmapWith(<<2, 1>>, 254)}

\* What a collaborator of the cycle may fail to supply.
Failures == {"no_pose", "no_plan", "empty_plan", "no_transform"}

\* Values published on max_vel_x.
VelocityData == {1, 3}

\* The Twist the host passes to computeVelocityCommands.
EntryTwist == Twist(0, 0)

NoCall == [op |-> "none"]

\* The contexts that call into the controller: the host's control loop, its
\* planner thread, its goal check, and the callback queues of the
\* reconfigure server and of the max_vel_x subscription.
Contexts == {"control", "planner", "goal", "reconfigure", "velocity"}

\* A context that is in no operation.
Idle == [at |-> "idle"]

\* ---------------------------------------------------------------- Init
Init ==
    /\ initialized_ = FALSE
    /\ has_new_path_ = FALSE
    /\ odom_topic = FALSE
    /\ acc_dt_ = 0
    /\ limits = [max_vel_x |-> 0, min_vel_x |-> 0, max_vel_theta |-> 0,
                 acc_lim_x |-> 0, acc_lim_theta |-> 0]
    /\ xy_goal_tolerance_ = 0
    /\ yaw_goal_tolerance_ = 0
    /\ min_in_place_vel_theta_ = 0
    /\ max_lookahead_ = 0
    /\ initial_rotate_tolerance_ = 0
    /\ resolution_ = 0
    /\ max_vel_x_ = 0
    /\ controller_ = [min_vel_x |-> 0, max_vel_x |-> 0, max_vel_theta |-> 0]
    /\ global_plan = <<>>
    /\ call = NoCall
    /\ config_mutex_ = "free"
    /\ running = [ctx \in Contexts |-> Idle]

\* ------------------------------------------------------------ actions
\* A cycle whose simulation loop never ends does not return: the host's
\* thread stays in it, holding config_mutex_.
Stuck == call.op = "computeVelocityCommands" /\ ~call.out.returned

\* The test of initialized_ left out.
UninitializedNever(flag) == FALSE

\* if (!initialized_) of computeVelocityCommands, isGoalReached and setPlan
\* (lines 181, 381, 416).
Uninitialized(flag) == ~flag

\* What reconfigureCallback assigns (lines 130-170).
Reconfigure(config) ==
    /\ limits' = [max_vel_x |-> config.max_vel_x, min_vel_x |-> config.min_vel_x,
                  max_vel_theta |-> config.max_vel_theta,
                  acc_lim_x |-> config.acc_lim_x,
                  acc_lim_theta |-> config.acc_lim_theta]
    /\ xy_goal_tolerance_' = config.xy_goal_tolerance
    /\ yaw_goal_tolerance_' = config.yaw_goal_tolerance
    /\ min_in_place_vel_theta_' = config.min_in_place_vel_theta
    /\ max_lookahead_' = config.max_lookahead
    /\ initial_rotate_tolerance_' = config.initial_rotate_tolerance
    /\ resolution_' = CostmapResolution
    /\ max_vel_x_' = config.max_vel_x
    /\ controller_' = [min_vel_x |-> config.min_vel_x,
                       max_vel_x |-> config.max_vel_x,
                       max_vel_theta |-> config.max_vel_theta]

\* initialize(name, tf, costmap_ros): the first call sets the controller up
\* and, through dsrv_->setCallback, runs reconfigureCallback once; a later
\* call does nothing.  odom tells whether the parameter odom_topic is set.
\* The parameter use_vel_topic is taken to be set: without it the behaviours
\* are those in which velocityCallback never runs.
initializeWith(odom, config) ==
    /\ ~Stuck
    /\ call' = [op |-> "initialize"]
    /\ IF ~initialized_
       THEN /\ initialized_' = TRUE
            /\ odom_topic' = odom
            /\ acc_dt_' = IF odom THEN 1 ELSE acc_dt_
            /\ Reconfigure(config)
            /\ UNCHANGED <<has_new_path_, global_plan>>
       ELSE UNCHANGED <<setup_vars, config_vars, controller_, has_new_path_,
                        global_plan>>

initialize ==
    \E odom \in BOOLEAN, config \in Configs :
        initializeWith(odom, config) /\ UNCHANGED lock_vars

\* reconfigureCallback(config, level), called by the server set up in
\* initialize.
reconfigureCallbackWith(config) ==
    /\ ~Stuck
    /\ initialized_
    /\ Reconfigure(config)
    /\ call' = [op |-> "reconfigureCallback"]
    /\ UNCHANGED <<setup_vars, has_new_path_, global_plan>>

reconfigureCallback ==
    \E config \in Configs :
        reconfigureCallbackWith(config) /\ UNCHANGED lock_vars

\* velocityCallback(max_vel_x), called by the subscription of initialize.
velocityCallbackWith(data) ==
    /\ ~Stuck
    /\ initialized_
    /\ max_vel_x_' = Max(Min(data, limits.max_vel_x), limits.min_vel_x)
    /\ call' = [op |-> "velocityCallback"]
    /\ UNCHANGED <<setup_vars, has_new_path_, global_plan, controller_, limits,
                   xy_goal_tolerance_, yaw_goal_tolerance_,
                   min_in_place_vel_theta_, max_lookahead_,
                   initial_rotate_tolerance_, resolution_>>

velocityCallback ==
    \E data \in VelocityData :
        velocityCallbackWith(data) /\ UNCHANGED lock_vars

\* The headings computed with the arguments of atan2 exchanged.
OrientedPlanSwapped(plan) ==
    [i \in 1 .. Len(plan) |->
        IF i = Len(plan)
        THEN plan[i]
        ELSE Pose(plan[i].x, plan[i].y,
                  NormalizeAngle(Atan2(plan[i + 1].x - plan[i].x,
                                       plan[i + 1].y - plan[i].y)))]

\* The plan setPlan builds from the host's plan (lines 423-438): every pose
\* but the last points at the next one, the last is copied.
OrientedPlan(plan) ==
    [i \in 1 .. Len(plan) |->
        IF i = Len(plan)
        THEN plan[i]
        ELSE Pose(plan[i].x, plan[i].y,
                  NormalizeAngle(Atan2(plan[i + 1].y - plan[i].y,
                                       plan[i + 1].x - plan[i].x)))]

\* setPlan(plan) for a path of one pose or more; stored tells whether
\* planner_util_.setPlan takes the plan.
setPlanWith(plan, stored) ==
    /\ ~Stuck
    /\ IF Uninitialized(initialized_)
       THEN /\ call' = [op |-> "setPlan", ret |-> FALSE, plan |-> plan,
                        handed |-> <<>>]
            /\ UNCHANGED <<setup_vars, config_vars, controller_,
                           has_new_path_, global_plan>>
       ELSE LET oriented_plan == OrientedPlan(plan)
            IN  /\ call' = [op |-> "setPlan", ret |-> stored, plan |-> plan,
                            handed |-> <<oriented_plan>>]
                /\ global_plan' = IF stored THEN oriented_plan
                                            ELSE global_plan
                /\ has_new_path_' = IF stored THEN TRUE ELSE has_new_path_
                /\ UNCHANGED <<setup_vars, config_vars, controller_>>

setPlan ==
    \E plan \in InputPaths, stored \in BOOLEAN :
        setPlanWith(plan, stored) /\ UNCHANGED lock_vars

\* What isGoalReached returns for a robot pose and a goal (lines 400-406).
GoalReached(robot, goal, xy_tol, yaw_tol) ==
    /\ HypotLess(goal.x - robot.x, goal.y - robot.y, xy_tol)
    /\ Abs(shortest_angular_distance(goal.yaw, robot.yaw)) < yaw_tol

\* isGoalReached(); fails tells what could not be obtained ("pose", "goal")
\* or "none".  planner_util_.getGoal yields the last pose of the plan.
isGoalReachedWith(robot, fails) ==
    /\ ~Stuck
    /\ global_plan = <<>> => fails # "none"
    /\ call' =
         [op |-> "isGoalReached", robot |-> robot, fails |-> fails,
          ret |-> /\ ~Uninitialized(initialized_)
                  /\ fails = "none"
                  /\ GoalReached(robot, global_plan[Len(global_plan)],
                                 xy_goal_tolerance_, yaw_goal_tolerance_)]
    /\ UNCHANGED <<setup_vars, config_vars, controller_, has_new_path_,
                   global_plan>>

isGoalReached ==
    \E robot \in RobotPoses, fails \in {"none", "pose", "goal"} :
        isGoalReachedWith(robot, fails) /\ UNCHANGED lock_vars

\* What a cycle has written when it starts.  returned tells whether the call
\* returns at all, ret what it returns, exit where it left.
CycleStart ==
    [returned |-> TRUE, ret |-> FALSE, exit |-> "", cmd_entry |-> EntryTwist, cmd_vel |-> EntryTwist,
     has_new_path |-> has_new_path_, controller |-> controller_,
     gates |-> <<>>, attempts |-> <<>>, local_plan |-> <<>>]

\* What a cycle reads.
CycleInputs(plan, robot, costmap, law, vel) ==
    [plan |-> plan, robot |-> robot, costmap |-> costmap, law |-> law,
     vel |-> vel, limits |-> limits, min_in_place |-> min_in_place_vel_theta_,
     odom |-> odom_topic, acc_dt |-> acc_dt_, max_vel_x |-> max_vel_x_,
     has_new_path |-> has_new_path_, xy_goal_tolerance |-> xy_goal_tolerance_,
     max_lookahead |-> max_lookahead_,
     initial_rotate_tolerance |-> initial_rotate_tolerance_,
     resolution |-> resolution_]

\* computeVelocityCommands from line 230 on: the goal-reached branch, or the
\* scan of the candidates.
Cycle(c, s) ==
    LET goal == c.plan[Len(c.plan)]
    IN  IF HypotLess(goal.x - c.robot.x, goal.y - c.robot.y, c.xy_goal_tolerance)
        THEN [s EXCEPT !.ret = TRUE, !.exit = "goal",
                       !.cmd_vel = rotateTowards(ToBase(goal, c.robot), c.limits,
                                                 c.min_in_place, c.odom, c.vel,
                                                 c.acc_dt).cmd]
        ELSE Scan(LastIndex(c.plan), c, s)

\* The state a cycle leaves and the record of the call.
Returns(c, s) ==
    /\ call' = [op |-> "computeVelocityCommands", in |-> c, out |-> s]
    /\ has_new_path_' = s.has_new_path
    /\ controller_' = s.controller
    /\ UNCHANGED <<setup_vars, config_vars, global_plan>>

NoInputs == [plan |-> <<>>]

\* computeVelocityCommands(cmd_vel) called before initialize (lines 181-185).
computeVelocityCommandsUninitialized ==
    /\ ~Stuck
    /\ Uninitialized(initialized_)
    /\ Returns(NoInputs, [CycleStart EXCEPT !.exit = "not_initialized"])

\* computeVelocityCommands(cmd_vel) when a collaborator fails to supply the
\* pose, the plan or the transform, or supplies an empty plan (lines 190-228).
computeVelocityCommandsFailing(f) ==
    /\ ~Stuck
    /\ ~Uninitialized(initialized_)
    /\ global_plan = <<>> => f \in {"no_pose", "no_plan"}
    /\ Returns(NoInputs, [CycleStart EXCEPT !.exit = f])

\* computeVelocityCommands(cmd_vel) with the pose, the costmap, the steering
\* law and the measured velocity it obtains (lines 230-372).
computeVelocityCommandsWith(robot, costmap, law, vel) ==
    /\ ~Stuck
    /\ ~Uninitialized(initialized_)
    /\ global_plan # <<>>
    /\ LET c == CycleInputs(global_plan, robot, costmap, law, vel)
       IN  Returns(c, Cycle(c, CycleStart))

\* computeVelocityCommands(cmd_vel)
computeVelocityCommands ==
    \/ computeVelocityCommandsUninitialized /\ UNCHANGED lock_vars
    \/ \E f \in Failures :
        computeVelocityCommandsFailing(f) /\ UNCHANGED lock_vars
    \/ \E robot \in RobotPoses, costmap \in Costmaps, law \in Laws,
          vel \in IF odom_topic THEN RobotVels ELSE {NoVel} :
        computeVelocityCommandsWith(robot, costmap, law, vel)
            /\ UNCHANGED lock_vars

Next ==
    \/ initialize
    \/ reconfigureCallback
    \/ velocityCallback
    \/ setPlan
    \/ isGoalReached
    \/ computeVelocityCommands

Spec == Init /\ [][Next]_vars

\* ------------------------------------- velocity feedback specification
\* The controller under configurations with a positive min_vel_x and with
\* min_in_place_vel_theta at or above max_vel_theta, with odometry reporting
\* a robot at rest, one turning right and one faster than max_vel_x, on a
\* free costmap and under the law "seek".
VelConfigs ==
    {[BaseConfig EXCEPT !.initial_rotate_tolerance = 2],
     [BaseConfig EXCEPT !.min_vel_x = 2, !.max_vel_x = 3,
                        !.min_in_place_vel_theta = 3],
     [BaseConfig EXCEPT !.min_in_place_vel_theta = 4,
                        !.xy_goal_tolerance = 4,
                        !.initial_rotate_tolerance = 2]}

VelPaths ==
    {[k \in 1 .. 3 |-> RoadPose(road, k, -6)] : road \in Roads}

VelRobotPoses == {Pose(1, 1, 0), Pose(0, 1, 4), Pose(2, 1, 8)}

VelRobotVels == {[x |-> 0, th |-> 0], [x |-> 1, th |-> -2], [x |-> 3, th |-> 1]}

FreeCostmap == [k \in Cells |-> 0]

VelNext ==
    \/ \E odom \in BOOLEAN, config \in VelConfigs :
        initializeWith(odom, config) /\ UNCHANGED lock_vars
    \/ \E config \in VelConfigs :
        reconfigureCallbackWith(config) /\ UNCHANGED lock_vars
    \/ velocityCallback
    \/ \E plan \in VelPaths :
        setPlanWith(plan, TRUE) /\ UNCHANGED lock_vars
    \/ \E robot \in VelRobotPoses,
          vel \in IF odom_topic THEN VelRobotVels ELSE {NoVel} :
        computeVelocityCommandsWith(robot, FreeCostmap, "seek", vel)
            /\ UNCHANGED lock_vars

SpecVel == Init /\ [][VelNext]_vars

\* --------------------------------------------- closed-loop specification
\* The host's control loop: once the controller is set up and has a plan,
\* each iteration asks isGoalReached and, while the answer is false, asks
\* computeVelocityCommands for a command, which the robot executes until the
\* next iteration.  The costmap is free, there is no odometry topic and the
\* steering law is "seek".
LoopConfigs ==
    {[BaseConfig EXCEPT !.xy_goal_tolerance = xy, !.initial_rotate_tolerance = rot] :
        xy \in {2, 4}, rot \in {0, 2}}

\* The straight path east from cell (1, 1) to the last but one cell of the
\* row, whose last pose asks for a heading that is a multiple of 90 degrees.
LoopPaths ==
    {[k \in 1 .. SizeX - 1 |->
         RoadPose("east", k, IF k = SizeX - 1 THEN h ELSE 0)] :
        h \in {-4, 0, 4, 8}}

\* Where the robot stands when the plan arrives: on the line of the path,
\* one cell before its first pose, heading along it or across it.  The goal
\* is SizeX - 1 cells away, beyond max_lookahead and both goal tolerances.
LoopStarts == {Pose(0, 1, 0), Pose(0, 1, 4)}

\* The pose of a robot one control period after it was handed cmd at pose p:
\* with a forward velocity it makes the step the forward simulation makes
\* (one cell), without one it turns a quarter turn the way of angular_z.
Execute(p, cmd) ==
    IF cmd.linear_x > 0
    THEN NextPose(p, cmd.linear_x, cmd.angular_z, CostmapResolution)
    ELSE IF cmd.angular_z = 0 THEN p
    ELSE Pose(p.x, p.y, NormalizeAngle(p.yaw + 4 * sign(cmd.angular_z)))

\* The pose the robot reports after the last cycle: a failed cycle leaves it
\* where it was (the host sends no command).
PoseAfterCycle ==
    IF call.out.ret THEN Execute(call.in.robot, call.out.cmd_vel)
                    ELSE call.in.robot

LoopNext ==
    \/ /\ ~initialized_
       /\ \E config \in LoopConfigs :
            initializeWith(FALSE, config) /\ UNCHANGED lock_vars
    \/ /\ call.op = "initialize"
       /\ \E plan \in LoopPaths :
            setPlanWith(plan, TRUE) /\ UNCHANGED lock_vars
    \/ /\ call.op = "setPlan"
       /\ \E robot \in LoopStarts :
            isGoalReachedWith(robot, "none") /\ UNCHANGED lock_vars
    \/ /\ call.op = "isGoalReached"
       /\ ~call.ret
       /\ computeVelocityCommandsWith(call.robot, FreeCostmap, "seek", NoVel)
       /\ UNCHANGED lock_vars
    \/ /\ call.op = "computeVelocityCommands"
       /\ call.out.returned
       /\ isGoalReachedWith(PoseAfterCycle, "none")
       /\ UNCHANGED lock_vars

\* The loop goes on until isGoalReached returns true, or for ever inside a
\* cycle that does not return.
LoopRuns == ~(call.op = "isGoalReached" /\ call.ret) /\ ~Stuck

\* An iteration of the loop: a call of another method than the last one
\* returns.  Every step of LoopNext is one, and one can be made exactly when
\* LoopRuns holds; the first disjunct names one such step, which lets the
\* enabling condition be evaluated without running the cycle.
LoopIteration ==
    /\ LoopRuns
    /\ \/ call' = [op |-> "iteration"] /\ UNCHANGED <<setup_vars, config_vars,
                      controller_, has_new_path_, global_plan, lock_vars>>
       \/ call'.op # call.op

\* The host runs its loop at a fixed rate: an iteration that can be made is
\* made.
SpecLoop == Init /\ [][LoopNext]_vars /\ WF_vars(LoopIteration)

\* -------------------------------------------- concurrent specification
\* The five operations in contexts of their own.  A context enters its
\* operation, is in its body for a while and returns; the methods that
\* construct a lock_guard on config_mutex_ wait for the mutex when they
\* enter and release it when they return.  The operation takes effect when
\* it returns.  The contexts run once initialize has returned: it is
\* initialize that creates the subscription and the reconfigure server.
OperationOf(ctx) ==
    CASE ctx = "control" -> "computeVelocityCommands"
      [] ctx = "planner" -> "setPlan"
      [] ctx = "goal" -> "isGoalReached"
      [] ctx = "reconfigure" -> "reconfigureCallback"
      [] ctx = "velocity" -> "velocityCallback"

\* The methods whose body runs under std::lock_guard<std::mutex>
\* lock(config_mutex_) (lines 130, 188, 505).
LocksMutex(op) ==
    op \in {"reconfigureCallback", "computeVelocityCommands", "velocityCallback"}

Read(v) == [var |-> v, write |-> FALSE]

Write(v) == [var |-> v, write |-> TRUE]

\* The members a method reads and writes after its test of initialized_.
AccessesOf(op) ==
    CASE op = "reconfigureCallback" ->
            {Write("limits"), Write("xy_goal_tolerance_"),
             Write("yaw_goal_tolerance_"), Write("min_in_place_vel_theta_"),
             Write("max_lookahead_"), Write("initial_rotate_tolerance_"),
             Write("resolution_"), Write("max_vel_x_"), Write("controller_")}
      [] op = "velocityCallback" ->
            {Read("limits"), Write("max_vel_x_")}
      [] op = "computeVelocityCommands" ->
            {Read("xy_goal_tolerance_"), Read("max_lookahead_"),
             Read("has_new_path_"), Write("has_new_path_"),
             Read("initial_rotate_tolerance_"), Read("limits"),
             Read("min_in_place_vel_theta_"), Read("max_vel_x_"),
             Read("controller_"), Write("controller_"), Read("resolution_")}
      [] op = "setPlan" ->
            {Write("has_new_path_")}
      [] op = "isGoalReached" ->
            {Read("xy_goal_tolerance_"), Read("yaw_goal_tolerance_")}

\* The accesses a context is making.
Accesses(ctx) ==
    IF running[ctx] = Idle THEN {} ELSE AccessesOf(running[ctx].at)

LockConfigs ==
    {BaseConfig,
     [BaseConfig EXCEPT !.xy_goal_tolerance = 4, !.yaw_goal_tolerance = 4]}

LockPaths == {[k \in 1 .. n |-> RoadPose("east", k, 0)] : n \in 2 .. 3}

LockRobotPoses == {Pose(1, 1, 0), Pose(2, 1, 4)}

\* A context enters its operation.
Enters(ctx) ==
    /\ initialized_
    /\ running[ctx] = Idle
    /\ LocksMutex(OperationOf(ctx)) => config_mutex_ = "free"
    /\ config_mutex_' = IF LocksMutex(OperationOf(ctx)) THEN ctx
                                                         ELSE config_mutex_
    /\ running' = [running EXCEPT ![ctx] = [at |-> OperationOf(ctx)]]
    /\ UNCHANGED <<setup_vars, config_vars, controller_, has_new_path_,
                   global_plan, call>>

\* A context leaves its operation.
Leaves(ctx) ==
    /\ running[ctx] # Idle
    /\ running' = [running EXCEPT ![ctx] = Idle]
    /\ config_mutex_' = IF config_mutex_ = ctx THEN "free" ELSE config_mutex_

LockNext ==
    \/ /\ ~initialized_
       /\ \E config \in LockConfigs :
            initializeWith(FALSE, config) /\ UNCHANGED lock_vars
    \/ \E ctx \in Contexts : Enters(ctx)
    \/ /\ Leaves("reconfigure")
       /\ \E config \in LockConfigs : reconfigureCallbackWith(config)
    \/ /\ Leaves("velocity")
       /\ \E data \in VelocityData : velocityCallbackWith(data)
    \/ /\ Leaves("planner")
       /\ \E plan \in LockPaths : setPlanWith(plan, TRUE)
    \/ /\ Leaves("goal")
       /\ \E robot \in LockRobotPoses :
            isGoalReachedWith(robot, IF global_plan = <<>> THEN "goal"
                                                            ELSE "none")
    \/ /\ Leaves("control")
       /\ global_plan = <<>>
       /\ computeVelocityCommandsFailing("no_plan")
    \/ /\ Leaves("control")
       /\ \E robot \in LockRobotPoses :
            computeVelocityCommandsWith(robot, FreeCostmap, "seek", NoVel)

SpecLock == Init /\ [][LockNext]_vars

\* ------------------------------------------------- plan specification
\* setPlan on every path a planner may hand over, the empty path among
\* them, with the record of the elements of plan and of oriented_plan the
\* call touches.
MaxOverrun == 2

PlanInputs == InputPaths \cup {<<>>}

\* The element back() refers to in a vector of n elements, from 0: the last
\* one, and for an empty vector the one before the storage.
BackIndex(n) == n - 1

\* The values of i the loop of line 430 runs its body with.  The bound
\* oriented_plan.size() - 1 is computed in size_t: for an empty vector it
\* is SIZE_MAX, above every i a run reaches, and the loop goes on until an
\* access faults, after `reach` iterations.
LoopIndices(n, reach) ==
    IF n = 0 THEN 0 .. reach - 1 ELSE 0 .. n - 2

\* The elements of plan read (lines 427, 432-434).
PlanReads(n, reach) ==
    {BackIndex(n)} \cup UNION {{i, i + 1} : i \in LoopIndices(n, reach)}

\* The elements of oriented_plan written (lines 427, 432-437).
OrientedWrites(n, reach) ==
    {BackIndex(n)} \cup LoopIndices(n, reach)

\* The process has ended in a call of setPlan.
Crashed == call.op = "setPlan" /\ ~call.returned

\* setPlan(plan) for any path.  On the empty path back() and operator[]
\* are used outside the vectors: the behaviour is undefined, and what a
\* build produces is a fault at line 427 (reach = 0) or in one of the
\* iterations of the loop.
setPlanOn(plan, stored, reach) ==
    /\ ~Crashed
    /\ IF Uninitialized(initialized_)
       THEN /\ call' = [op |-> "setPlan", plan |-> plan, returned |-> TRUE,
                        ret |-> FALSE, read |-> {}, written |-> {}]
            /\ UNCHANGED <<has_new_path_, global_plan>>
       ELSE IF plan = <<>>
       THEN /\ call' = [op |-> "setPlan", plan |-> plan, returned |-> FALSE,
                        ret |-> FALSE,
                        read |-> PlanReads(0, reach),
                        written |-> OrientedWrites(0, reach)]
            /\ UNCHANGED <<has_new_path_, global_plan>>
       ELSE /\ call' = [op |-> "setPlan", plan |-> plan, returned |-> TRUE,
                        ret |-> stored,
                        read |-> PlanReads(Len(plan), 0),
                        written |-> OrientedWrites(Len(plan), 0)]
            /\ global_plan' = IF stored THEN OrientedPlan(plan)
                                        ELSE global_plan
            /\ has_new_path_' = IF stored THEN TRUE ELSE has_new_path_
    /\ UNCHANGED <<setup_vars, config_vars, controller_, lock_vars>>

PlanNext ==
    \/ /\ ~Crashed
       /\ \E odom \in BOOLEAN, config \in Configs :
            initializeWith(odom, config) /\ UNCHANGED lock_vars
    \/ \E plan \in PlanInputs, stored \in BOOLEAN, reach \in 0 .. MaxOverrun :
        setPlanOn(plan, stored, reach)

SpecPlan == Init /\ [][PlanNext]_vars

\* ------------------------------------------------------------- claims
\* The last call was a cycle that read its inputs.
InCycle == call.op = "computeVelocityCommands" /\ call.in.plan # <<>>

\* Squared planar distance of two poses.
Dist2(p, q) == (p.x - q.x) * (p.x - q.x) + (p.y - q.y) * (p.y - q.y)

\* The indices of the cycle's candidates (index >= 1) within max_lookahead of
\* the robot.
InRange(c) ==
    {i \in 1 .. Len(c.plan) - 1 :
        Dist2(c.plan[i + 1], c.robot) <= c.max_lookahead * c.max_lookahead}

Highest(S) == CHOOSE i \in S : \A j \in S : j <= i

Rejected(a) == a.outcome \in {"collision", "off_costmap"}

\* The pose is on the costmap, in a cell below the inscribed threshold.
Passable(c, p) ==
    LET w == ToOdom(p, c.robot)
        cell == <<w.x \div CostmapResolution, w.y \div CostmapResolution>>
    IN  /\ w.x >= 0
        /\ w.y >= 0
        /\ cell \in Cells
        /\ c.costmap[cell] < INSCRIBED_INFLATED_OBSTACLE

\* C1: a cycle that returns success from the tracking branch returns it for
\* a candidate every simulated pose of which, mapped into the costmap frame,
\* is on the grid and in a cell of cost strictly below
\* INSCRIBED_INFLATED_OBSTACLE; the published trajectory is that candidate's.
C1_TrackedTrajectoryIsFree ==
    (InCycle /\ call.out.exit = "tracking") =>
        LET a == call.out.attempts[Len(call.out.attempts)]
        IN  /\ call.out.ret = TRUE
            /\ a.outcome = "converged"
            /\ call.out.local_plan = <<a.path>>
            /\ \A k \in 1 .. Len(a.path) : Passable(call.in, a.path[k])

\* A tracking cycle whose trajectory crosses a cell of cost 252, one below
\* the threshold.
C1_Witness ==
    /\ InCycle
    /\ call.out.exit = "tracking"
    /\ LET a == call.out.attempts[Len(call.out.attempts)]
       IN  /\ Len(a.path) >= 2
           /\ \E k \in 1 .. Len(a.path) :
                LET w == ToOdom(a.path[k], call.in.robot)
                IN  call.in.costmap[<<w.x, w.y>>] = 252

\* C2: the candidates of a cycle are simulated in strictly decreasing index,
\* all within max_lookahead, the highest in-range index first, and an index
\* only after every higher in-range index was rejected by a collision or an
\* off-grid cell; when the farthest in-range candidate is rejected and the
\* next in-range one converges, the command and the published trajectory are
\* those of the next one.
C2_FarthestFirst ==
    InCycle =>
        LET c == call.in
            o == call.out
            n == Len(o.attempts)
        IN  /\ (o.exit \in {"tracking", "no_reachable", "approach_failed",
                           "never_ends"} /\ InRange(c) # {}) => n >= 1
            /\ n >= 1 => o.attempts[1].index = Highest(InRange(c))
            /\ \A k \in 1 .. n :
                /\ o.attempts[k].index \in InRange(c)
                /\ k < n => o.attempts[k + 1].index < o.attempts[k].index
                /\ \A j \in InRange(c) :
                     j > o.attempts[k].index =>
                        \E m \in 1 .. k - 1 :
                            /\ o.attempts[m].index = j
                            /\ Rejected(o.attempts[m])
            /\ (n >= 2 /\ Rejected(o.attempts[1])
                      /\ o.attempts[2].outcome = "converged") =>
                  LET t == ToBase(At(c.plan, o.attempts[2].index), c.robot)
                      v == approach(c.law, o.attempts[2].bounds, t.x, t.y, t.yaw)
                  IN  /\ o.ret = TRUE
                      /\ o.attempts[2].index =
                            Highest(InRange(c) \ {o.attempts[1].index})
                      /\ o.cmd_vel = Twist(v.vel_x, v.vel_th)
                      /\ o.local_plan = <<o.attempts[2].path>>

\* The farthest in-range candidate is blocked and the next one is tracked.
C2_Witness ==
    /\ InCycle
    /\ call.out.exit = "tracking"
    /\ Len(call.out.attempts) = 2
    /\ call.out.attempts[1].outcome = "collision"
    /\ call.out.local_plan # <<call.out.attempts[1].path>>

\* C3: no pose farther than max_lookahead from the robot is passed to the
\* forward simulation or to the initial-rotation gate; the scan goes on with
\* lower indices.
C3_TooFarNeverSimulated ==
    InCycle =>
        LET c == call.in
            far(i) == Dist2(At(c.plan, i), c.robot)
                          > c.max_lookahead * c.max_lookahead
        IN  /\ \A k \in 1 .. Len(call.out.attempts) :
                 ~far(call.out.attempts[k].index)
            /\ \A k \in 1 .. Len(call.out.gates) : ~far(call.out.gates[k].index)

\* A cycle that skipped a pose beyond max_lookahead and simulated a lower one.
C3_Witness ==
    /\ InCycle
    /\ Len(call.out.attempts) >= 1
    /\ \E j \in 1 .. Len(call.in.plan) - 1 :
         /\ j > call.out.attempts[1].index
         /\ Dist2(At(call.in.plan, j), call.in.robot)
               > call.in.max_lookahead * call.in.max_lookahead

\* C4: a cycle with the robot outside xy_goal_tolerance of the final pose in
\* which every candidate of index >= 1 is beyond max_lookahead or was
\* rejected by the grid returns failure; so does a plan of one pose.
C4_AllRejectedFails ==
    InCycle =>
        LET c == call.in
            o == call.out
            goal == c.plan[Len(c.plan)]
        IN  (/\ Dist2(goal, c.robot) >= c.xy_goal_tolerance * c.xy_goal_tolerance
             /\ \A i \in InRange(c) :
                  \E k \in 1 .. Len(o.attempts) :
                      o.attempts[k].index = i /\ Rejected(o.attempts[k]))
            => (o.returned /\ o.ret = FALSE)

\* Two candidates in range, both rejected, and the cycle fails.
C4_Witness ==
    /\ InCycle
    /\ call.out.returned
    /\ call.out.ret = FALSE
    /\ Len(call.out.attempts) = 2
    /\ \A k \in 1 .. 2 : Rejected(call.out.attempts[k])

\* A plan of one pose away from the robot: no candidate, the cycle fails.
C4_WitnessOnePose ==
    /\ InCycle
    /\ Len(call.in.plan) = 1
    /\ call.out.exit = "no_reachable"

\* C5: a cycle that returns failure leaves the caller's cmd_vel as it was at
\* entry.
C5_FailureLeavesCommand ==
    (call.op = "computeVelocityCommands" /\ call.out.returned
        /\ call.out.ret = FALSE) =>
        call.out.cmd_vel = call.out.cmd_entry

\* C6: when approach fails at a step of a candidate's simulation the cycle
\* returns failure at once: that candidate is the last one simulated and no
\* trajectory is published.
C6_ApproachFailureAborts ==
    InCycle =>
        \A k \in 1 .. Len(call.out.attempts) :
            LET a == call.out.attempts[k]
                t == ToBase(At(call.in.plan, a.index), call.in.robot)
                e == ErrorOf(t, a.path)
            IN  (~Rejected(a)
                 /\ ~approach(call.in.law, a.bounds, e.x, e.y, e.angle).ok) =>
                    /\ k = Len(call.out.attempts)
                    /\ call.out.returned
                    /\ call.out.ret = FALSE
                    /\ call.out.local_plan = <<>>

\* approach fails at a later step of the second candidate simulated.
C6_Witness ==
    /\ InCycle
    /\ Len(call.out.attempts) = 2
    /\ call.out.attempts[2].outcome = "approach_failed"
    /\ Len(call.out.attempts[2].path) >= 1
    /\ call.out.ret = FALSE

\* The yaw error that remains at the goal: the goal's heading relative to the
\* robot's, in (-Pi, Pi].
RemainingYaw(c) ==
    LET d == c.plan[Len(c.plan)].yaw - c.robot.yaw
    IN  CHOOSE e \in -Pi + 1 .. Pi : \E n \in -2 .. 2 : e = d + 2 * Pi * n

\* C7: a cycle with the robot less than xy_goal_tolerance from the last pose
\* returns success without scanning or simulating, with linear.x = 0 and
\* angular.z of the sign of the goal's heading relative to the robot's (zero
\* counted as positive).
C7_GoalBranchTurnsToGoalHeading ==
    InCycle =>
        LET c == call.in
            o == call.out
            goal == c.plan[Len(c.plan)]
        IN  Dist2(goal, c.robot) < c.xy_goal_tolerance * c.xy_goal_tolerance =>
                /\ o.returned
                /\ o.ret = TRUE
                /\ o.attempts = <<>>
                /\ o.gates = <<>>
                /\ o.cmd_vel.linear_x = 0
                /\ RemainingYaw(c) < 0 => o.cmd_vel.angular_z < 0
                /\ RemainingYaw(c) >= 0 => o.cmd_vel.angular_z > 0

\* The least of the distances |a - b + 2 * Pi * n|: the absolute shortest
\* angular distance between two headings.
AngularDistance(a, b) ==
    LET ds == {Abs(a - b + 2 * Pi * n) : n \in -2 .. 2}
    IN  CHOOSE d \in ds : \A e \in ds : d <= e

\* C8: isGoalReached returns true exactly when the controller is initialized,
\* the pose and the goal were obtained, the planar distance to the goal is
\* below xy_goal_tolerance and the absolute shortest angular distance between
\* the goal's and the robot's heading is below yaw_goal_tolerance.
C8_GoalReachedExactly ==
    call.op = "isGoalReached" =>
        (call.ret = TRUE <=>
            /\ initialized_
            /\ call.fails = "none"
            /\ LET goal == global_plan[Len(global_plan)]
               IN  /\ xy_goal_tolerance_ > 0
                   /\ Dist2(goal, call.robot)
                         < xy_goal_tolerance_ * xy_goal_tolerance_
                   /\ AngularDistance(goal.yaw, call.robot.yaw)
                         < yaw_goal_tolerance_)

\* isGoalReached returns true for headings on either side of the half turn:
\* the difference of the headings is more than Pi, the angular distance less
\* than the tolerance.
C8_Witness ==
    /\ call.op = "isGoalReached"
    /\ call.ret = TRUE
    /\ Abs(call.robot.yaw - global_plan[Len(global_plan)].yaw) > Pi

\* isGoalReached returns false within both tolerances when the goal cannot be
\* obtained.
C8_WitnessNoGoal ==
    /\ call.op = "isGoalReached"
    /\ call.ret = FALSE
    /\ call.fails = "goal"
    /\ global_plan # <<>>
    /\ GoalReached(call.robot, global_plan[Len(global_plan)],
                   xy_goal_tolerance_, yaw_goal_tolerance_)

\* The yaw error toward the farthest in-range candidate of the cycle.
YawErrorToFarthest(c) ==
    RotateYaw(ToBase(At(c.plan, Highest(InRange(c))), c.robot))

\* The cycle is outside the goal-reached branch, has a candidate in range,
\* and starts with the new-path flag set and initial_rotate_tolerance > 0.
Gated(c) ==
    /\ c.has_new_path
    /\ c.initial_rotate_tolerance > 0
    /\ Dist2(c.plan[Len(c.plan)], c.robot)
          >= c.xy_goal_tolerance * c.xy_goal_tolerance
    /\ InRange(c) # {}

\* C9: with the new-path flag set and initial_rotate_tolerance > 0, a cycle
\* outside the goal-reached branch whose yaw error toward the farthest
\* in-range candidate is at least the tolerance in magnitude returns success
\* with linear.x = 0, simulates nothing and leaves the flag set; a cycle
\* clears the flag only when that error is below the tolerance in magnitude,
\* and then simulates that candidate in the same cycle.
C9_InitialRotationGate ==
    InCycle =>
        LET c == call.in
            o == call.out
        IN  /\ (Gated(c) /\ Abs(YawErrorToFarthest(c)) >= c.initial_rotate_tolerance)
                  => /\ o.returned
                     /\ o.ret = TRUE
                     /\ o.cmd_vel.linear_x = 0
                     /\ o.attempts = <<>>
                     /\ has_new_path_
            /\ (c.has_new_path /\ ~has_new_path_)
                  => /\ Gated(c)
                     /\ Abs(YawErrorToFarthest(c)) < c.initial_rotate_tolerance
                     /\ o.attempts # <<>>
                     /\ o.attempts[1].index = Highest(InRange(c))

\* A cycle returns a rotation for a negative error and keeps the flag.
C9_Witness ==
    /\ InCycle
    /\ call.out.exit = "rotate"
    /\ call.out.gates[1].yaw < 0
    /\ call.out.cmd_vel.angular_z < 0
    /\ has_new_path_

\* A cycle clears the flag and tracks the candidate it was gated on.
C9_WitnessCleared ==
    /\ InCycle
    /\ call.in.has_new_path
    /\ ~has_new_path_
    /\ call.out.exit = "tracking"

\* The unit step in the direction of an exact heading (a multiple of 45
\* degrees).
Direction(h) ==
    CASE h = 0 -> <<1, 0>>
      [] h = 2 -> <<1, 1>>
      [] h = 4 -> <<0, 1>>
      [] h = 6 -> <<-1, 1>>
      [] h = 8 -> <<-1, 0>>
      [] h = -2 -> <<1, -1>>
      [] h = -4 -> <<0, -1>>
      [] h = -6 -> <<-1, -1>>

\* Heading h points from pose p to pose q.
PointsAt(h, p, q) ==
    /\ h \in {-6, -4, -2, 0, 2, 4, 6, 8}
    /\ (q.x - p.x) * Direction(h)[2] = (q.y - p.y) * Direction(h)[1]
    /\ (q.x - p.x) * Direction(h)[1] + (q.y - p.y) * Direction(h)[2] > 0

\* C10: the plan setPlan hands on for a non-empty path of N poses has the
\* same N positions, every pose but the last heads toward its successor, and
\* the last pose has the heading it had in the input; a plan that is taken
\* becomes the stored plan.
C10_SetPlanOrients ==
    (call.op = "setPlan" /\ call.handed # <<>>) =>
        LET in == call.plan
            out == call.handed[1]
            n == Len(in)
        IN  /\ Len(out) = n
            /\ \A i \in 1 .. n :
                /\ out[i].x = in[i].x
                /\ out[i].y = in[i].y
                /\ i < n => PointsAt(out[i].yaw, in[i], in[i + 1])
                /\ i = n => out[i].yaw = in[i].yaw
            /\ call.ret = TRUE => global_plan = out

\* setPlan took a path of three poses or more whose headings it rewrote.
C10_Witness ==
    /\ call.op = "setPlan"
    /\ call.ret = TRUE
    /\ Len(call.plan) >= 3
    /\ \E i \in 1 .. Len(call.plan) - 1 :
         /\ call.handed[1][i].yaw # call.plan[i].yaw
         /\ call.handed[1][i].yaw = 2

\* The velocity the acceleration limit allows a cycle to reach from the
\* measured one.
Reachable(c) == c.vel.x + c.limits.acc_lim_x * c.acc_dt

\* C11 as stated: with odometry, the maximum forward velocity a cycle pushes
\* into the steering law exceeds neither v0 + acc_lim_x * acc_dt nor the
\* cached maximum max_vel_x_.
C11_AccelerationCap ==
    (InCycle /\ call.in.odom) =>
        \A k \in 1 .. Len(call.out.attempts) :
            /\ call.out.attempts[k].bounds.max_vel_x <= Reachable(call.in)
            /\ call.out.attempts[k].bounds.max_vel_x <= call.in.max_vel_x

\* C11, amended: with odometry, the maximum forward velocity a cycle pushes
\* into the steering law is at least min_vel_x and at least the smaller of
\* v0 + acc_lim_x * acc_dt and max_vel_x_, and when it is above min_vel_x it
\* exceeds neither v0 + acc_lim_x * acc_dt nor max_vel_x_.
C11_AccelerationCapAboveMin ==
    (InCycle /\ call.in.odom) =>
        \A k \in 1 .. Len(call.out.attempts) :
            LET b == call.out.attempts[k].bounds.max_vel_x
                lo == call.in.limits.min_vel_x
            IN  /\ b >= lo
                /\ b >= Reachable(call.in) \/ b >= call.in.max_vel_x
                /\ b > lo => /\ b <= Reachable(call.in)
                             /\ b <= call.in.max_vel_x

\* A cycle with odometry pushes v0 + acc_lim_x * acc_dt, below the cached
\* maximum and above min_vel_x.
C11_Witness ==
    /\ InCycle
    /\ call.in.odom
    /\ call.out.attempts # <<>>
    /\ call.out.attempts[1].bounds.max_vel_x = Reachable(call.in)
    /\ Reachable(call.in) < call.in.max_vel_x
    /\ Reachable(call.in) > call.in.limits.min_vel_x

\* C12: before initialize has been called, computeVelocityCommands, setPlan
\* and isGoalReached return false; the cycle leaves before it asks for the
\* pose or the plan and simulates nothing, setPlan hands no plan on, and the
\* stored plan, the new-path flag and the output command stay as they were.
C12_UninitializedCallsDoNothing ==
    [][(~initialized_ /\ call'.op \in {"computeVelocityCommands", "setPlan",
                                       "isGoalReached"}) =>
          /\ global_plan' = global_plan
          /\ has_new_path_' = has_new_path_
          /\ controller_' = controller_
          /\ call'.op = "computeVelocityCommands" =>
                /\ call'.out.returned
                /\ call'.out.ret = FALSE
                /\ call'.out.exit = "not_initialized"
                /\ call'.in = NoInputs
                /\ call'.out.cmd_vel = call'.out.cmd_entry
                /\ call'.out.gates = <<>>
                /\ call'.out.attempts = <<>>
                /\ call'.out.local_plan = <<>>
          /\ call'.op = "setPlan" =>
                /\ call'.ret = FALSE
                /\ call'.handed = <<>>
          /\ call'.op = "isGoalReached" => call'.ret = FALSE]_vars

\* computeVelocityCommands was called before initialize.
C12_Witness ==
    /\ ~initialized_
    /\ call.op = "computeVelocityCommands"
    /\ call.out.exit = "not_initialized"

\* setPlan was called before initialize.
C12_WitnessSetPlan ==
    /\ ~initialized_
    /\ call.op = "setPlan"
    /\ call.ret = FALSE

\* isGoalReached was called before initialize.
C12_WitnessGoalReached ==
    /\ ~initialized_
    /\ call.op = "isGoalReached"
    /\ call.ret = FALSE

\* C13: on a straight, obstacle-free path of two poses or more with a
\* distant goal, with the robot executing each returned command, no cycle
\* fails and isGoalReached eventually returns true.
C13_EventuallyGoalReached ==
    /\ [](call.op = "computeVelocityCommands" =>
             call.out.returned /\ call.out.ret)
    /\ <>(call.op = "isGoalReached" /\ call.ret)

\* The same for goal tolerances of at most 0.5 m.
C13_ReachedWithinNearDistance ==
    /\ [](call.op = "computeVelocityCommands" =>
             call.out.returned /\ call.out.ret)
    /\ <>(\/ call.op = "isGoalReached" /\ call.ret
          \/ xy_goal_tolerance_ > NearDistance)

\* The loop reached the goal after a rotation in the goal branch.
C13_Witness ==
    /\ call.op = "isGoalReached"
    /\ call.ret
    /\ call.robot.yaw # 0

\* The command the steering law gives at step k of the simulation of
\* candidate a of cycle c: for the target in base frame seen from the pose
\* the first k - 1 steps have reached.
StepCommand(c, a, k) ==
    LET t == ToBase(At(c.plan, a.index), c.robot)
        e == ErrorOf(t, SubSeq(a.path, 1, k - 1))
    IN  approach(c.law, a.bounds, e.x, e.y, e.angle)

\* The pose step k of the simulation of candidate a starts from.
StepStart(a, k) == IF k = 1 THEN Pose(0, 0, 0) ELSE a.path[k - 1]

\* The yaw after a step of dt = resolution / vel_x from yaw.
YawAfter(c, yaw, v) ==
    NormalizeAngle(yaw + 4 * ((c.resolution * v.vel_th) \div v.vel_x))

\* C14: every pose appended to a simulated trajectory results from its
\* predecessor by first turning the yaw by dt * vel_th and then advancing by
\* dt * vel_x (one resolution) along the new heading.
C14_YawThenAdvance ==
    InCycle =>
        \A n \in 1 .. Len(call.out.attempts) :
            LET a == call.out.attempts[n]
            IN  \A k \in 1 .. Len(a.path) :
                    LET from == StepStart(a, k)
                        yaw == YawAfter(call.in, from.yaw,
                                        StepCommand(call.in, a, k))
                    IN  a.path[k] =
                            Pose(from.x + call.in.resolution * Cos(yaw),
                                 from.y + call.in.resolution * Sin(yaw),
                                 yaw)

\* What the code does: every pose appended to a simulated trajectory
\* results from its predecessor by advancing one resolution along the old
\* heading and then turning the yaw by dt * vel_th.
C14_AdvanceThenYaw ==
    InCycle =>
        \A n \in 1 .. Len(call.out.attempts) :
            LET a == call.out.attempts[n]
            IN  \A k \in 1 .. Len(a.path) :
                    LET from == StepStart(a, k)
                    IN  a.path[k] =
                            Pose(from.x + call.in.resolution * Cos(from.yaw),
                                 from.y + call.in.resolution * Sin(from.yaw),
                                 YawAfter(call.in, from.yaw,
                                          StepCommand(call.in, a, k)))

\* A simulated step turns, and the pose it appends lies ahead of its
\* predecessor along the old heading.
C14_Witness ==
    /\ InCycle
    /\ \E n \in 1 .. Len(call.out.attempts) :
        LET a == call.out.attempts[n]
        IN  \E k \in 1 .. Len(a.path) :
                /\ a.path[k].yaw # StepStart(a, k).yaw
                /\ a.path[k].x = StepStart(a, k).x
                                    + call.in.resolution * Cos(StepStart(a, k).yaw)
                /\ a.path[k].y = StepStart(a, k).y
                                    + call.in.resolution * Sin(StepStart(a, k).yaw)

\* C15: at every approach call of a cycle the steering law's velocity
\* bounds are (min_vel_x, max_vel_x_eff, max_vel_theta) of that cycle, where
\* max_vel_x_eff is the cached maximum max_vel_x_ without odometry and the
\* acceleration-capped maximum with it: the approach calls use the latest
\* cached maximum whether or not odometry is configured.
C15_BoundsFollowCachedMaximum ==
    InCycle =>
        \A n \in 1 .. Len(call.out.attempts) :
            call.out.attempts[n].bounds =
                [min_vel_x |-> call.in.limits.min_vel_x,
                 max_vel_x |->
                    IF call.in.odom
                    THEN Max(Min(Reachable(call.in), call.in.max_vel_x),
                             call.in.limits.min_vel_x)
                    ELSE call.in.max_vel_x,
                 max_vel_theta |-> call.in.limits.max_vel_theta]

\* The members the claim says config_mutex_ guards.
Guarded ==
    {"limits", "xy_goal_tolerance_", "yaw_goal_tolerance_", "max_lookahead_",
     "resolution_", "max_vel_x_", "has_new_path_", "controller_"}

\* Two contexts are making accesses to the same guarded member, one of them
\* a write.
Overlap(c1, c2) ==
    \E a \in Accesses(c1), b \in Accesses(c2) :
        /\ a.var = b.var
        /\ a.var \in Guarded
        /\ a.write \/ b.write

\* C16: under every interleaving of the five operations, a context that
\* reads or writes a guarded member holds config_mutex_, and no two
\* contexts make overlapping accesses to the same guarded member of which
\* one is a write.
C16_GuardedAccessesHoldMutex ==
    /\ \A ctx \in Contexts :
        (\E a \in Accesses(ctx) : a.var \in Guarded) => config_mutex_ = ctx
    /\ \A c1, c2 \in Contexts : c1 # c2 => ~Overlap(c1, c2)

\* The same for the methods that lock: of those, no two overlap.
C16_LockingMethodsExclude ==
    \A c1, c2 \in Contexts :
        (/\ c1 # c2
         /\ running[c1] # Idle
         /\ running[c2] # Idle
         /\ LocksMutex(running[c1].at)
         /\ LocksMutex(running[c2].at)) => FALSE

\* No read of the goal tolerances overlaps a write of them.
C16_NoRaceOnTolerances == ~Overlap("goal", "reconfigure")

\* No two writes of the new-path flag overlap.
C16_NoRaceOnNewPathFlag == ~Overlap("planner", "control")

\* C17: every call of computeVelocityCommands returns: the simulation loop
\* of every candidate ends after finitely many steps, whatever command the
\* steering law gives.
C17_EveryCycleReturns ==
    call.op = "computeVelocityCommands" =>
        /\ call.out.returned
        /\ \A k \in 1 .. Len(call.out.attempts) :
            call.out.attempts[k].outcome # "never_ends"

\* The loops that do not end are those of a law that circles: under a law
\* that drives at the target every cycle returns.
C17_SeekingLawReturns ==
    (call.op = "computeVelocityCommands" /\ ~call.out.returned) =>
        call.in.law = "spin"

\* The last candidate a cycle simulated.
LastAttempt == call.out.attempts[Len(call.out.attempts)]

\* What the steering law gives for candidate a of the last cycle at the first
\* iteration of its simulation: the target in base frame, nothing simulated.
FirstCommand(a) ==
    LET target == ToBase(At(call.in.plan, a.index), call.in.robot)
        v == approach(call.in.law, a.bounds, target.x, target.y, target.yaw)
    IN  Twist(v.vel_x, v.vel_th)

TrackingCycle ==
    call.op = "computeVelocityCommands" /\ call.out.exit = "tracking"

\* C18: a cycle that succeeds from the tracking branch returns the command
\* the steering law gave at the first simulation iteration of the candidate
\* that converged, and publishes that candidate's trajectory alone.
C18_TrackingReturnsFirstCommand ==
    TrackingCycle =>
        /\ call.out.ret
        /\ LastAttempt.outcome = "converged"
        /\ \A k \in 1 .. Len(call.out.attempts) - 1 :
            call.out.attempts[k].outcome # "converged"
        /\ call.out.cmd_vel = FirstCommand(LastAttempt)
        /\ call.out.local_plan = <<LastAttempt.path>>

\* A tracking cycle whose converged candidate came after a rejected one with
\* another command, and whose law gives another command at a later
\* iteration of the simulation.
C18_Witness ==
    /\ TrackingCycle
    /\ Len(call.out.attempts) >= 2
    /\ call.out.attempts[1].cmd # call.out.cmd_vel
    /\ \E n \in 1 .. Len(LastAttempt.path) :
        LET e == ErrorOf(ToBase(At(call.in.plan, LastAttempt.index),
                                call.in.robot), SubSeq(LastAttempt.path, 1, n))
            v == approach(call.in.law, LastAttempt.bounds, e.x, e.y, e.angle)
        IN  Twist(v.vel_x, v.vel_th) # call.out.cmd_vel

\* A tracking cycle that came through the initial-rotation gate.
C18_WitnessGate ==
    /\ TrackingCycle
    /\ call.out.gates # <<>>
    /\ call.in.has_new_path

\* A cycle that returned the command of rotateTowards: at the goal, or at
\* the initial-rotation gate.
RotateCycle ==
    call.op = "computeVelocityCommands" /\ call.out.exit \in {"goal", "rotate"}

\* The pose the last rotateTowards of such a cycle was given, in base frame.
RotateTarget ==
    ToBase(IF call.out.exit = "goal"
           THEN call.in.plan[Len(call.in.plan)]
           ELSE At(call.in.plan,
                   call.out.gates[Len(call.out.gates)].index),
           call.in.robot)

\* The yaw error for a pose in base frame: the bearing when the pose is more
\* than 0.5 m away, the pose's heading otherwise.
YawError(pose) ==
    IF pose.x * pose.x + pose.y * pose.y > NearDistance * NearDistance
    THEN Atan2(pose.y, pose.x)
    ELSE pose.yaw

\* max_vel_th: the configured max_vel_theta without odometry, else the
\* velocity reachable within acc_dt kept at or below max_vel_theta and at or
\* above min_in_place_vel_theta.
MaxVelTh(c) ==
    IF c.odom
    THEN Max(c.min_in_place,
             Min(Abs(c.vel.th) + c.limits.acc_lim_theta * c.acc_dt,
                 c.limits.max_vel_theta))
    ELSE c.limits.max_vel_theta

\* Every gate call of the last cycle returned the yaw error of its pose.
GatesReturnYawError ==
    \A k \in 1 .. Len(call.out.gates) :
        call.out.gates[k].yaw =
            YawError(ToBase(At(call.in.plan, call.out.gates[k].index),
                            call.in.robot))

\* The command has no linear part and turns the way of the yaw error, zero
\* taken as positive.
TurnsTowards(cmd, yaw) ==
    /\ cmd.linear_x = 0
    /\ yaw >= 0 => cmd.angular_z >= 0
    /\ yaw < 0 => cmd.angular_z <= 0

\* C19: rotateTowards returns a command with no linear part, of angular
\* magnitude within [min_in_place_vel_theta, max_vel_th] and of the sign of
\* the yaw error, which is the bearing of a target more than 0.5 m away and
\* the target's heading otherwise.
C19_RotateCommandInRange ==
    call.op = "computeVelocityCommands" =>
        /\ GatesReturnYawError
        /\ RotateCycle =>
            /\ TurnsTowards(call.out.cmd_vel, YawError(RotateTarget))
            /\ Abs(call.out.cmd_vel.angular_z) >= call.in.min_in_place
            /\ Abs(call.out.cmd_vel.angular_z) <= MaxVelTh(call.in)

\* C19 amended: the magnitude is sqrt(2 * acc_lim_theta * |yaw error|) kept
\* at or above min_in_place_vel_theta and then at or below max_vel_th: it is
\* within [min_in_place_vel_theta, max_vel_th] when min_in_place_vel_theta
\* is at most max_vel_th, and it is max_vel_th otherwise.
C19_RotateCommandClamped ==
    call.op = "computeVelocityCommands" =>
        /\ GatesReturnYawError
        /\ RotateCycle =>
            LET yaw == YawError(RotateTarget)
                mag == Abs(call.out.cmd_vel.angular_z)
                lo == call.in.min_in_place
                hi == MaxVelTh(call.in)
                wanted == Sqrt(2 * call.in.limits.acc_lim_theta * Abs(yaw))
            IN  /\ TurnsTowards(call.out.cmd_vel, yaw)
                /\ lo <= hi =>
                    /\ mag >= lo
                    /\ mag <= hi
                    /\ wanted \in lo .. hi => mag = wanted
                /\ lo > hi => mag = hi

\* A rotation at the gate, with odometry, to the right, towards a target
\* more than 0.5 m away, at a max_vel_th below the configured maximum.
C19_Witness ==
    /\ call.op = "computeVelocityCommands"
    /\ call.out.exit = "rotate"
    /\ call.in.odom
    /\ YawError(RotateTarget) < 0
    /\ YawError(RotateTarget) # RotateTarget.yaw
    /\ Abs(call.out.cmd_vel.angular_z) > call.in.min_in_place
    /\ MaxVelTh(call.in) < call.in.limits.max_vel_theta

\* A rotation at a magnitude strictly inside the range.
C19_WitnessInside ==
    /\ RotateCycle
    /\ Abs(call.out.cmd_vel.angular_z) > call.in.min_in_place
    /\ Abs(call.out.cmd_vel.angular_z) < MaxVelTh(call.in)

\* A rotation at the goal under a min_in_place_vel_theta above max_vel_th.
C19_WitnessAboveMaximum ==
    /\ RotateCycle
    /\ call.out.exit = "goal"
    /\ call.in.min_in_place > MaxVelTh(call.in)

\* A rotation towards the heading of a target within 0.5 m.
C19_WitnessNear ==
    /\ RotateCycle
    /\ YawError(RotateTarget) = RotateTarget.yaw
    /\ YawError(RotateTarget) # Atan2(RotateTarget.y, RotateTarget.x)

\* The elements a path of n poses has.
Within(n) == 0 .. n - 1

\* C20: setPlan returns for every path, the empty path and a path of one
\* pose among them, and reads and writes only the elements 0 .. N - 1 of a
\* path of N poses.
C20_SetPlanReturnsWithinBounds ==
    call.op = "setPlan" =>
        /\ call.returned
        /\ call.read \subseteq Within(Len(call.plan))
        /\ call.written \subseteq Within(Len(call.plan))

\* On a path of one pose or more setPlan does so.
C20_NonEmptyPathWithinBounds ==
    (call.op = "setPlan" /\ call.plan # <<>>) =>
        /\ call.returned
        /\ call.read \subseteq Within(Len(call.plan))
        /\ call.written \subseteq Within(Len(call.plan))

\* The exits of a cycle that leaves before the scan of the candidates.
BeforeScan == Failures \cup {"not_initialized", "goal"}

\* What a step that is a cycle does with the new-path flag: the gate is
\* evaluated at most once, only under a set flag, for the farthest candidate
\* in range and before anything is simulated; a cycle that starts with the
\* flag clear gates nothing and leaves it clear; a cycle that leaves before
\* the scan leaves the flag as it was.
CycleKeepsGate ==
    LET o == call'.out
    IN  /\ Len(o.gates) <= 1
        /\ o.gates # <<>> =>
            /\ has_new_path_
            /\ o.gates[1].index = Highest(InRange(call'.in))
            /\ \A k \in 1 .. Len(o.attempts) :
                o.attempts[k].index <= o.gates[1].index
        /\ ~has_new_path_ => o.gates = <<>>
        /\ o.exit \in BeforeScan => has_new_path_' = has_new_path_
        /\ (has_new_path_ /\ ~has_new_path_') =>
            /\ Len(o.gates) = 1
            /\ Abs(o.gates[1].yaw) < call'.in.initial_rotate_tolerance

\* C21: the new-path flag becomes true only through a setPlan whose plan was
\* stored and false only at the initial-rotation gate of a cycle; a cycle
\* evaluates the gate for at most one candidate, the farthest in range, and
\* with the flag clear no cycle gates a candidate, whatever the end of the
\* cycle that cleared it; a failed setPlan, a cycle that reaches the goal or
\* fails before the scan, the callbacks, initialize and isGoalReached leave
\* the flag as it was.
C21_NewPathFlag ==
    [][/\ (~has_new_path_ /\ has_new_path_') =>
            (call'.op = "setPlan" /\ call'.ret)
       /\ (has_new_path_ /\ ~has_new_path_') =>
            call'.op = "computeVelocityCommands"
       /\ call'.op = "computeVelocityCommands" => CycleKeepsGate
       /\ (call'.op = "setPlan" /\ ~call'.ret) =>
            has_new_path_' = has_new_path_
       /\ call'.op \in {"reconfigureCallback", "velocityCallback",
                        "initialize", "isGoalReached"} =>
            has_new_path_' = has_new_path_]_vars

\* A cycle cleared the flag at the gate, simulated two candidates or more
\* without another gate call, and ended in failure.
C21_Witness ==
    /\ InCycle
    /\ call.in.has_new_path
    /\ ~has_new_path_
    /\ Len(call.out.gates) = 1
    /\ Len(call.out.attempts) >= 2
    /\ call.out.returned
    /\ ~call.out.ret

\* A cycle under initial_rotate_tolerance > 0 that starts with the flag
\* clear after a plan was stored: it simulates and gates nothing.
C21_WitnessLaterCycle ==
    /\ InCycle
    /\ ~call.in.has_new_path
    /\ call.in.initial_rotate_tolerance > 0
    /\ call.out.attempts # <<>>
    /\ call.out.gates = <<>>

\* A cycle in the goal-reached branch under a set flag.
C21_WitnessGoal ==
    /\ InCycle
    /\ call.out.exit = "goal"
    /\ call.in.initial_rotate_tolerance > 0
    /\ has_new_path_

====
